---- MODULE Spec2Model ----
(***************************************************************************)
(* A model of the notebook RNN.ipynb: the IMDB data is loaded and padded,  *)
(* four recurrent models are built, and each is trained with one shared    *)
(* EarlyStopping callback and evaluated on the test set.                   *)
(*                                                                         *)
(* The notebook is a straight line of statements; the framework calls it   *)
(* makes (load_data, pad_sequences, Sequential/Model, compile, fit,        *)
(* EarlyStopping, evaluate) are modelled by what they do to the values the *)
(* notebook holds.  An array of the notebook is modelled by its shape and  *)
(* the rows the model tracks (none, or a sample of them): load_data and    *)
(* pad_sequences treat every row on its own.  A validation loss is a level *)
(* in 1..MaxLoss.                                                          *)
(***************************************************************************)
EXTENDS Integers, Sequences, FiniteSets, TLC

\* ---------------------------------------------------------------- constants

VOCAB_SIZE == 10000

MAXLEN == 500

BATCH_SIZE == 64

\* The size of the IMDB training and test sets, as the notebook prints them.
NUM_TRAIN == 25000

NUM_TEST == 25000

\* tf.keras.layers.Embedding(VOCAB_SIZE, 32), rnn_cell(32), rnn_units=32
EMBED_DIM == 32

RNN_UNITS == 32

\* imdb.load_data defaults: start_char=1, oov_char=2, index_from=3
START_CHAR == 1

OOV_CHAR == 2

INDEX_FROM == 3

\* ------------------------------------------------------------------- bounds

\* Validation losses are levels 1..MaxLoss (a lower level is a lower loss).
MaxLoss == 5

\* Raw reviews are up to MAXLEN + MaxOver words long.
MaxOver == 2

\* The float('inf') that EarlyStopping.best starts from.
Inf == MaxLoss + 1

\* ----------------------------------------------------------- data: load, pad

\* Word ranks as the dataset file holds them: frequent words, the ranks on
\* either side of the num_words cut (rank + INDEX_FROM = VOCAB_SIZE is the
\* first index cut), and a rare word.
RawWords == {1, VOCAB_SIZE - INDEX_FROM - 1, VOCAB_SIZE - INDEX_FROM, 8 * VOCAB_SIZE}

RawLens == {0, 1, MAXLEN - 2, MAXLEN - 1} \cup {MAXLEN + k : k \in 0..MaxOver}

\* A raw review of n words: its first word is a, the others b.
RawReview(n, a, b) == [i \in 1..n |-> IF i = 1 THEN a ELSE b]

RawReviews == {RawReview(n, w, w) : n \in RawLens, w \in RawWords}

\* load_data_row without the num_words cut: every index is kept.
load_data_row_NoCut(x, num_words) ==
    <<START_CHAR>> \o [i \in 1..Len(x) |-> x[i] + INDEX_FROM]

\* imdb.load_data(num_words=...) on one review: start_char is prepended, every
\* rank is shifted by index_from, and an index outside skip_top..num_words-1
\* (skip_top = 0) becomes oov_char.
load_data_row(x, num_words) ==
    LET shifted == <<START_CHAR>> \o [i \in 1..Len(x) |-> x[i] + INDEX_FROM]
    IN  [i \in 1..Len(shifted) |->
            IF 0 <= shifted[i] /\ shifted[i] < num_words THEN shifted[i] ELSE OOV_CHAR]

\* pad_sequences_row that pads a short row and leaves a long one as it is.
pad_sequences_row_NoTruncate(s, maxlen) ==
    IF Len(s) > maxlen THEN s
    ELSE [i \in 1..maxlen |-> IF i <= maxlen - Len(s) THEN 0 ELSE s[i - (maxlen - Len(s))]]

\* sequence.pad_sequences(..., maxlen) on one row, with its defaults
\* padding='pre', truncating='pre', value=0: the last maxlen entries are kept
\* and zeros are put in front.
pad_sequences_row(s, maxlen) ==
    LET trunc == IF Len(s) > maxlen THEN SubSeq(s, Len(s) - maxlen + 1, Len(s)) ELSE s
        fill  == maxlen - Len(trunc)
    IN  [i \in 1..maxlen |-> IF i <= fill THEN 0 ELSE trunc[i - fill]]

\* ------------------------------------------------------------- model building

\* The trainable parameters of a recurrent layer of `units` units on inputs of
\* width in_dim: one kernel, one recurrent kernel and one bias per gate (GRU,
\* with its default reset_after=True, has two biases per gate).
RecurrentParams(rnn_cell, in_dim, units) ==
    CASE rnn_cell = "SimpleRNN" -> units * (in_dim + units + 1)
      [] rnn_cell = "LSTM"      -> 4 * units * (in_dim + units + 1)
      [] rnn_cell = "GRU"       -> 3 * units * (in_dim + units + 2)

\* Embedding(input_dim, output_dim) applied to an input of shape in_shape.
Embedding(input_dim, output_dim, in_shape) ==
    [type |-> "Embedding", input_dim |-> input_dim,
     out_shape |-> in_shape \o <<output_dim>>, params |-> input_dim * output_dim]

\* rnn_cell(units, return_sequences=...) applied to (timesteps, in_dim).
Recurrent(rnn_cell, units, return_sequences, in_shape) ==
    [type |-> rnn_cell, input_dim |-> in_shape[2],
     out_shape |-> IF return_sequences THEN <<in_shape[1], units>> ELSE <<units>>,
     params |-> RecurrentParams(rnn_cell, in_shape[2], units)]

\* tf.keras.layers.Attention()([query, value]): the output has the query's
\* shape, and with the default use_scale=False the layer has no weights.
Attention(query_shape, value_shape) ==
    [type |-> "Attention", input_dim |-> value_shape[2],
     out_shape |-> query_shape, params |-> 0]

RECURSIVE Product(_)
Product(shape) == IF shape = <<>> THEN 1 ELSE Head(shape) * Product(Tail(shape))

Flatten(in_shape) ==
    [type |-> "Flatten", input_dim |-> Product(in_shape),
     out_shape |-> <<Product(in_shape)>>, params |-> 0]

\* Dense(units) on an input whose last axis is in_shape[Len(in_shape)].
Dense(units, in_shape) ==
    [type |-> "Dense", input_dim |-> in_shape[Len(in_shape)],
     out_shape |-> SubSeq(in_shape, 1, Len(in_shape) - 1) \o <<units>>,
     params |-> in_shape[Len(in_shape)] * units + units]

\* model.compile(optimizer, loss, metrics) on a stack of layers.
Compile(layers, input_shape, optimizer, loss, metrics) ==
    [layers |-> layers, input_shape |-> input_shape, optimizer |-> optimizer,
     loss |-> loss, metrics |-> metrics, stop_training |-> FALSE]

\* build_model(rnn_cell): Sequential([Embedding, rnn_cell(32), Dense(1)]),
\* with the shapes its layers take on the padded input.
build_model(rnn_cell) ==
    LET sequence_input == <<MAXLEN>>
        embedding == Embedding(VOCAB_SIZE, EMBED_DIM, sequence_input)
        rnn       == Recurrent(rnn_cell, EMBED_DIM, FALSE, embedding.out_shape)
        dense     == Dense(1, rnn.out_shape)
    IN  Compile(<<embedding, rnn, dense>>, sequence_input,
                "adam", "binary_crossentropy", <<"accuracy">>)

\* build_model2 compiled with another optimizer than build_model.
build_model2_OtherOptimizer(rnn_cell, rnn_units) ==
    LET sequence_input            == <<MAXLEN>>
        embedded_sequences        == Embedding(VOCAB_SIZE, rnn_units, sequence_input)
        rnn_output                == Recurrent(rnn_cell, rnn_units, TRUE,
                                               embedded_sequences.out_shape)
        query_value_attention_seq == Attention(rnn_output.out_shape, rnn_output.out_shape)
        attention_flatten         == Flatten(query_value_attention_seq.out_shape)
        dense_output              == Dense(1, attention_flatten.out_shape)
    IN  Compile(<<embedded_sequences, rnn_output, query_value_attention_seq,
                  attention_flatten, dense_output>>, sequence_input,
                "rmsprop", "binary_crossentropy", <<"accuracy">>)

\* build_model2 with the Flatten layer left out: Dense works on the last axis.
build_model2_NoFlatten(rnn_cell, rnn_units) ==
    LET sequence_input            == <<MAXLEN>>
        embedded_sequences        == Embedding(VOCAB_SIZE, rnn_units, sequence_input)
        rnn_output                == Recurrent(rnn_cell, rnn_units, TRUE,
                                               embedded_sequences.out_shape)
        query_value_attention_seq == Attention(rnn_output.out_shape, rnn_output.out_shape)
        dense_output              == Dense(1, query_value_attention_seq.out_shape)
    IN  Compile(<<embedded_sequences, rnn_output, query_value_attention_seq,
                  dense_output>>, sequence_input,
                "adam", "binary_crossentropy", <<"accuracy">>)

\* build_model2(rnn_cell, rnn_units): Input, Embedding, rnn_cell with
\* return_sequences=True, self-attention, Flatten, Dense(1).
build_model2(rnn_cell, rnn_units) ==
    LET sequence_input            == <<MAXLEN>>
        embedded_sequences        == Embedding(VOCAB_SIZE, rnn_units, sequence_input)
        rnn_output                == Recurrent(rnn_cell, rnn_units, TRUE,
                                               embedded_sequences.out_shape)
        query_value_attention_seq == Attention(rnn_output.out_shape, rnn_output.out_shape)
        attention_flatten         == Flatten(query_value_attention_seq.out_shape)
        dense_output              == Dense(1, attention_flatten.out_shape)
    IN  Compile(<<embedded_sequences, rnn_output, query_value_attention_seq,
                  attention_flatten, dense_output>>, sequence_input,
                "adam", "binary_crossentropy", <<"accuracy">>)

RECURSIVE SumParams(_)
SumParams(layers) ==
    IF layers = <<>> THEN 0 ELSE Head(layers).params + SumParams(Tail(layers))

\* model.summary(): the output shape and parameter count of every layer, and
\* the totals (every weight of these layers is trainable).
Summary(model) ==
    [shapes |-> [i \in 1..Len(model.layers) |-> model.layers[i].out_shape],
     params |-> [i \in 1..Len(model.layers) |-> model.layers[i].params],
     total |-> SumParams(model.layers), trainable |-> SumParams(model.layers),
     non_trainable |-> 0]

\* ---------------------------------------------------------------- the notebook

ModelNames == {"rnn_model", "lstm_model", "gru_model", "lstm_model_with_attention"}

\* The statements of the notebook's code cells, each with the arguments
\* written at its call (validation_split in percent).  Cell 1: the data, the
\* three plain models, the callback, and the SimpleRNN run.
Cell1 ==
    << [op |-> "load_data", num_words |-> VOCAB_SIZE],
       [op |-> "pad_sequences", arg |-> "input_train", maxlen |-> MAXLEN],
       [op |-> "pad_sequences", arg |-> "input_test", maxlen |-> MAXLEN],
       [op |-> "build_model", arg |-> "rnn_model", rnn_cell |-> "SimpleRNN"],
       [op |-> "build_model", arg |-> "lstm_model", rnn_cell |-> "LSTM"],
       [op |-> "build_model", arg |-> "gru_model", rnn_cell |-> "GRU"],
       [op |-> "EarlyStopping", monitor |-> "val_loss", patience |-> 2],
       [op |-> "fit", arg |-> "rnn_model", x |-> "input_train", y |-> "y_train",
        epochs |-> 10, batch_size |-> BATCH_SIZE, validation_split |-> 20,
        callbacks |-> <<"callback">>],
       [op |-> "evaluate", arg |-> "rnn_model", x |-> "input_test", y |-> "y_test"],
       [op |-> "print", arg |-> "rnn_model"] >>

\* The LSTM cell with the GRU model evaluated in place of the LSTM model.
Cell2_EvaluateOtherModel ==
    << [op |-> "fit", arg |-> "lstm_model", x |-> "input_train", y |-> "y_train",
        epochs |-> 10, batch_size |-> BATCH_SIZE, validation_split |-> 20,
        callbacks |-> <<"callback">>],
       [op |-> "evaluate", arg |-> "gru_model", x |-> "input_test", y |-> "y_test"],
       [op |-> "print", arg |-> "lstm_model"] >>

\* Cell 2: the LSTM run.
Cell2 ==
    << [op |-> "fit", arg |-> "lstm_model", x |-> "input_train", y |-> "y_train",
        epochs |-> 10, batch_size |-> BATCH_SIZE, validation_split |-> 20,
        callbacks |-> <<"callback">>],
       [op |-> "evaluate", arg |-> "lstm_model", x |-> "input_test", y |-> "y_test"],
       [op |-> "print", arg |-> "lstm_model"] >>

\* Cell 3: the GRU run.
Cell3 ==
    << [op |-> "fit", arg |-> "gru_model", x |-> "input_train", y |-> "y_train",
        epochs |-> 10, batch_size |-> BATCH_SIZE, validation_split |-> 20,
        callbacks |-> <<"callback">>],
       [op |-> "evaluate", arg |-> "gru_model", x |-> "input_test", y |-> "y_test"],
       [op |-> "print", arg |-> "gru_model"] >>

\* Cell 4: the LSTM model with attention, and its summary.
Cell4 ==
    << [op |-> "build_model2", arg |-> "lstm_model_with_attention",
        rnn_cell |-> "LSTM", rnn_units |-> RNN_UNITS],
       [op |-> "summary", arg |-> "lstm_model_with_attention"] >>

\* Cell 5: the run of the LSTM model with attention.
Cell5 ==
    << [op |-> "fit", arg |-> "lstm_model_with_attention", x |-> "input_train",
        y |-> "y_train", epochs |-> 10, batch_size |-> BATCH_SIZE,
        validation_split |-> 20, callbacks |-> <<"callback">>],
       [op |-> "evaluate", arg |-> "lstm_model_with_attention", x |-> "input_test",
        y |-> "y_test"],
       [op |-> "print", arg |-> "lstm_model_with_attention"] >>

\* The cells run in the order of their execution counts, 1 to 5.
Program == Cell1 \o Cell2 \o Cell3 \o Cell4 \o Cell5

ArrayNames == {"input_train", "y_train", "input_test", "y_test"}

VARIABLES
    pc,          \* the index in Program of the statement to run next
    imdb,        \* the dataset file: the raw reviews and labels of each set
    arrays,      \* the notebook's arrays: name -> [shape, rows: the tracked rows]
    models,      \* the notebook's models: name -> compiled model
    callback,    \* the one EarlyStopping object
    fit,         \* the fit call in progress (or the last one): arguments and loop
    history,     \* the val_loss list of the History that fit call returns
    calls,       \* per model: how often it was fitted, evaluated, printed
    summary,     \* what lstm_model_with_attention.summary() displayed
    reads,       \* which rows of which array fit and evaluate have read
    results      \* per model: the [loss, accuracy] its evaluate call returned

vars == <<pc, imdb, arrays, models, callback, fit, history, calls, summary, reads,
          results>>

Stmt == Program[pc]

Running(op) == pc \in 1..Len(Program) /\ Stmt.op = op

NoArray == [shape |-> <<>>, rows |-> <<>>]

NoModel == [layers |-> <<>>, input_shape |-> <<>>, optimizer |-> "", loss |-> "",
            metrics |-> <<>>, stop_training |-> FALSE]

NoCallback == [monitor |-> "", patience |-> 0, monitor_op |-> "", best |-> 0,
               wait |-> 0, stopped_epoch |-> 0]

NoRange == [lo |-> 1, hi |-> 0]

NoBatches == [steps |-> 0, size |-> 0, n |-> 0]

NoFit == [phase |-> "idle", model |-> "", x |-> "", y |-> "", epochs |-> 0,
          batch_size |-> 0, validation_split |-> 0, callbacks |-> <<>>, epoch |-> 0,
          train_idx |-> NoRange, val_idx |-> NoRange, batches |-> NoBatches]

NoResults == [loss |-> 0, accuracy |-> 0]

NoSummary == [shapes |-> <<>>, params |-> <<>>, total |-> 0, trainable |-> 0,
              non_trainable |-> 0]

\* The state before the first cell runs, for a dataset file of which the
\* given reviews and labels are tracked.
InitWith(x_train, y_train, x_test, y_test) ==
    /\ pc = 1
    /\ imdb = [x_train |-> [shape |-> <<NUM_TRAIN>>, rows |-> x_train],
               y_train |-> [shape |-> <<NUM_TRAIN>>, rows |-> y_train],
               x_test  |-> [shape |-> <<NUM_TEST>>, rows |-> x_test],
               y_test  |-> [shape |-> <<NUM_TEST>>, rows |-> y_test]]
    /\ arrays = [a \in ArrayNames |-> NoArray]
    /\ models = [m \in ModelNames |-> NoModel]
    /\ callback = NoCallback
    /\ fit = NoFit
    /\ history = <<>>
    /\ calls = [m \in ModelNames |-> [fit |-> 0, evaluate |-> 0, print |-> 0]]
    /\ summary = NoSummary
    /\ reads = {}
    /\ results = [m \in ModelNames |-> NoResults]

\* The whole notebook, the contents of the rows left untracked.
Init == InitWith(<<>>, <<>>, <<>>, <<>>)

\* Any reviews the bounds allow, for the data steps.
InitData ==
    \E x_train \in RawReviews, x_test \in RawReviews, y_train \in {0, 1} :
        InitWith(<<x_train>>, <<y_train>>, <<x_test>>, <<1 - y_train>>)

\* imdb.load_data(num_words) on the reviews of one set: a list of as many
\* reviews, each converted on its own.
load_data(x, num_words) ==
    [shape |-> x.shape,
     rows |-> [i \in 1..Len(x.rows) |-> load_data_row(x.rows[i], num_words)]]

\* (input_train, y_train), (input_test, y_test) = imdb.load_data(num_words=VOCAB_SIZE)
LoadData ==
    /\ Running("load_data")
    /\ arrays' = [arrays EXCEPT
          !["input_train"] = load_data(imdb.x_train, Stmt.num_words),
          !["y_train"]     = imdb.y_train,
          !["input_test"]  = load_data(imdb.x_test, Stmt.num_words),
          !["y_test"]      = imdb.y_test]
    /\ pc' = pc + 1
    /\ UNCHANGED <<imdb, models, callback, fit, history, calls, summary, reads, results>>

\* sequence.pad_sequences(sequences, maxlen): an array of len(sequences) rows
\* and maxlen columns, each row made from the sequence at its index.
pad_sequences(sequences, maxlen) ==
    [shape |-> <<sequences.shape[1], maxlen>>,
     rows |-> [i \in 1..Len(sequences.rows) |->
                  pad_sequences_row(sequences.rows[i], maxlen)]]

\* input_train = sequence.pad_sequences(input_train, maxlen=MAXLEN), and input_test
PadSequences ==
    /\ Running("pad_sequences")
    /\ arrays' = [arrays EXCEPT ![Stmt.arg] = pad_sequences(arrays[Stmt.arg], Stmt.maxlen)]
    /\ pc' = pc + 1
    /\ UNCHANGED <<imdb, models, callback, fit, history, calls, summary, reads, results>>

\* rnn_model = build_model(tf.keras.layers.SimpleRNN), and lstm_model, gru_model
BuildModel ==
    /\ Running("build_model")
    /\ models' = [models EXCEPT ![Stmt.arg] = build_model(Stmt.rnn_cell)]
    /\ pc' = pc + 1
    /\ UNCHANGED <<imdb, arrays, callback, fit, history, calls, summary, reads, results>>

\* lstm_model_with_attention = build_model2(tf.keras.layers.LSTM)
BuildModel2 ==
    /\ Running("build_model2")
    /\ models' = [models EXCEPT ![Stmt.arg] = build_model2(Stmt.rnn_cell, Stmt.rnn_units)]
    /\ pc' = pc + 1
    /\ UNCHANGED <<imdb, arrays, callback, fit, history, calls, summary, reads, results>>

\* lstm_model_with_attention.summary()
ShowSummary ==
    /\ Running("summary")
    /\ summary' = Summary(models[Stmt.arg])
    /\ pc' = pc + 1
    /\ UNCHANGED <<imdb, arrays, models, callback, fit, history, calls, reads, results>>

\* ------------------------------------------------------------- EarlyStopping

\* tf.keras.callbacks.EarlyStopping(monitor='val_loss', patience=2): the
\* comparison and the best value are set up at the first epoch end.
EarlyStopping(monitor, patience) ==
    [monitor |-> monitor, patience |-> patience, monitor_op |-> "unset",
     best |-> Inf, wait |-> 0, stopped_epoch |-> 0]

\* EarlyStopping.on_train_begin: the callback is made ready for another fit.
\* It resets wait and stopped_epoch; best keeps the value the last fit left
\* (the recorded GRU run stops after epoch 2 with val_loss 0.3231 < 0.3581,
\* above the 0.3055 the LSTM run reached).
on_train_begin(cb) == [cb EXCEPT !.wait = 0, !.stopped_epoch = 0]

\* on_epoch_end that stops only once wait exceeds patience.
on_epoch_end_WaitsOneMore(cb, epoch, current) ==
    LET ready  == IF cb.monitor_op = "unset"
                  THEN [cb EXCEPT !.monitor_op = "less", !.best = Inf]
                  ELSE cb
        waited == [ready EXCEPT !.wait = @ + 1]
    IN  IF current < waited.best
        THEN [cb |-> [waited EXCEPT !.best = current, !.wait = 0], stop |-> FALSE]
        ELSE IF waited.wait > waited.patience /\ epoch > 0
             THEN [cb |-> [waited EXCEPT !.stopped_epoch = epoch], stop |-> TRUE]
             ELSE [cb |-> waited, stop |-> FALSE]

\* EarlyStopping.on_epoch_end(epoch, logs) with logs['val_loss'] = current:
\* the callback after it, and whether it set model.stop_training.
on_epoch_end(cb, epoch, current) ==
    LET ready  == IF cb.monitor_op = "unset"
                  THEN [cb EXCEPT !.monitor_op = "less", !.best = Inf]
                  ELSE cb
        waited == [ready EXCEPT !.wait = @ + 1]
    IN  IF current < waited.best
        THEN [cb |-> [waited EXCEPT !.best = current, !.wait = 0], stop |-> FALSE]
        ELSE IF waited.wait >= waited.patience /\ epoch > 0
             THEN [cb |-> [waited EXCEPT !.stopped_epoch = epoch], stop |-> TRUE]
             ELSE [cb |-> waited, stop |-> FALSE]

\* callback = tf.keras.callbacks.EarlyStopping(monitor='val_loss', patience=2)
NewCallback ==
    /\ Running("EarlyStopping")
    /\ callback' = EarlyStopping(Stmt.monitor, Stmt.patience)
    /\ pc' = pc + 1
    /\ UNCHANGED <<imdb, arrays, models, fit, history, calls, summary, reads, results>>

\* ----------------------------------------------------------------------- fit

\* train_validation_split that holds out all but pct percent.
train_validation_split_Complement(n, pct) ==
    LET split_at == (n * pct) \div 100
    IN  [train |-> [lo |-> 1, hi |-> split_at], val |-> [lo |-> split_at + 1, hi |-> n]]

\* validation_split: the last pct percent of the n rows are held out, before
\* any shuffling; split_at = floor(n * (1 - validation_split)).
train_validation_split(n, pct) ==
    LET split_at == (n * (100 - pct)) \div 100
    IN  [train |-> [lo |-> 1, hi |-> split_at], val |-> [lo |-> split_at + 1, hi |-> n]]

Size(range) == range.hi - range.lo + 1

\* Batches that drops the rows left after the last full batch.
Batches_DropRemainder(n, batch_size) ==
    [steps |-> n \div batch_size, size |-> batch_size, n |-> n]

\* One epoch's batches over n (shuffled) training rows: ceil(n / batch_size)
\* consecutive slices of batch_size rows, the last one holding what is left.
Batches(n, batch_size) ==
    LET steps == (n + batch_size - 1) \div batch_size
    IN  [steps |-> steps, size |-> batch_size, n |-> n]

\* The rows of an epoch's i-th batch (positions in the shuffled training rows).
Batch(batches, i) ==
    [lo |-> (i - 1) * batches.size + 1,
     hi |-> IF i * batches.size < batches.n THEN i * batches.size ELSE batches.n]

\* FitReads of a fit that validates on the test arrays.
FitReads_ValidationOnTest(f, use, idx) ==
    {[by |-> "fit", model |-> f.model, use |-> use, array |-> a, idx |-> idx] :
        a \in IF use = "validation" THEN {"input_test", "y_test"} ELSE {f.x, f.y}}

\* What a fit call reads in one epoch's training, and in its validation.
FitReads(f, use, idx) ==
    {[by |-> "fit", model |-> f.model, use |-> use, array |-> a, idx |-> idx] : a \in {f.x, f.y}}

\* model.fit(x, y, epochs, batch_size, validation_split, callbacks) starts: the
\* data is split, stop_training is cleared, on_train_begin runs (History
\* starts a new list).
FitBegin ==
    /\ Running("fit")
    /\ fit.phase = "idle"
    /\ LET split == train_validation_split(arrays[Stmt.x].shape[1], Stmt.validation_split)
       IN  fit' = [phase |-> "train", model |-> Stmt.arg, x |-> Stmt.x, y |-> Stmt.y,
                   epochs |-> Stmt.epochs, batch_size |-> Stmt.batch_size,
                   validation_split |-> Stmt.validation_split,
                   callbacks |-> Stmt.callbacks, epoch |-> 0,
                   train_idx |-> split.train, val_idx |-> split.val, batches |-> NoBatches]
    /\ models' = [models EXCEPT ![Stmt.arg].stop_training = FALSE]
    /\ callback' = on_train_begin(callback)
    /\ history' = <<>>
    /\ calls' = [calls EXCEPT ![Stmt.arg].fit = @ + 1]
    /\ UNCHANGED <<pc, imdb, arrays, summary, reads, results>>

\* One epoch's training steps: a weight update per batch of the training rows.
TrainEpoch ==
    /\ Running("fit")
    /\ fit.phase = "train"
    /\ fit' = [fit EXCEPT !.phase = "validate",
                          !.batches = Batches(Size(fit.train_idx), fit.batch_size)]
    /\ reads' = reads \cup FitReads(fit, "train", fit.train_idx)
    /\ UNCHANGED <<pc, imdb, arrays, models, callback, history, calls, summary, results>>

\* TrainingEnds of a loop that runs one epoch too many.
TrainingEnds_OneMore(stop_training, epoch, epochs) == stop_training \/ epoch >= epochs

\* The epoch loop of fit, `for epoch in range(epochs)`, after the epoch numbered
\* `epoch` (from 0): it is left when stop_training is set or no epoch remains.
TrainingEnds(stop_training, epoch, epochs) == stop_training \/ epoch + 1 >= epochs

\* The end of an epoch: the validation loss is computed on the held-out rows,
\* History records it, EarlyStopping.on_epoch_end runs, and the loop goes on
\* unless stop_training is set or `epochs` epochs are done.
ValidateEpoch ==
    /\ Running("fit")
    /\ fit.phase = "validate"
    /\ \E val_loss \in 1..MaxLoss :
          LET after == on_epoch_end(callback, fit.epoch, val_loss)
              stop  == models[fit.model].stop_training \/ after.stop
          IN  /\ history' = Append(history, val_loss)
              /\ callback' = after.cb
              /\ models' = [models EXCEPT ![fit.model].stop_training = stop]
              /\ fit' = [fit EXCEPT
                    !.epoch = @ + 1,
                    !.phase = IF TrainingEnds(stop, fit.epoch, fit.epochs)
                              THEN "done" ELSE "train"]
    /\ reads' = reads \cup FitReads(fit, "validation", fit.val_idx)
    /\ UNCHANGED <<pc, imdb, arrays, calls, summary, results>>

\* fit returns its History; the notebook goes on to the next statement.
FitEnd ==
    /\ Running("fit")
    /\ fit.phase = "done"
    /\ fit' = [fit EXCEPT !.phase = "idle"]
    /\ pc' = pc + 1
    /\ UNCHANGED <<imdb, arrays, models, callback, history, calls, summary, reads, results>>

\* The 'Test Loss: ... - Test Accuracy: ...' line each cell's output records,
\* as <<loss, accuracy>> in units of 10^-7 (the printed digits beyond are cut).
RecordedOutput ==
    [rnn_model                 |-> <<5225266, 8274800>>,
     lstm_model                |-> <<3614866, 8655599>>,
     gru_model                 |-> <<3340174, 8593599>>,
     lstm_model_with_attention |-> <<3626443, 8790000>>]

\* evaluate taking the two metrics in the other order.
evaluate_MetricsSwapped(model) ==
    [loss |-> RecordedOutput[model][2], accuracy |-> RecordedOutput[model][1]]

\* model.evaluate(input_test, y_test) returns [loss, accuracy], the compiled
\* loss first and the compiled metric second; the values are those of the
\* recorded run, printed as results[0] and results[1].
evaluate(model) ==
    [loss |-> RecordedOutput[model][1], accuracy |-> RecordedOutput[model][2]]

\* results = model.evaluate(input_test, y_test)
Evaluate ==
    /\ Running("evaluate")
    /\ reads' = reads \cup
          {[by |-> "evaluate", model |-> Stmt.arg, use |-> "test", array |-> a,
            idx |-> [lo |-> 1, hi |-> arrays[a].shape[1]]] : a \in {Stmt.x, Stmt.y}}
    /\ calls' = [calls EXCEPT ![Stmt.arg].evaluate = @ + 1]
    /\ results' = [results EXCEPT ![Stmt.arg] = evaluate(Stmt.arg)]
    /\ pc' = pc + 1
    /\ UNCHANGED <<imdb, arrays, models, callback, fit, history, summary>>

\* print(f'Test Loss: {results[0]} - Test Accuracy: {results[1]}')
PrintResults ==
    /\ Running("print")
    /\ calls' = [calls EXCEPT ![Stmt.arg].print = @ + 1]
    /\ pc' = pc + 1
    /\ UNCHANGED <<imdb, arrays, models, callback, fit, history, summary, reads, results>>

Next ==
    \/ LoadData
    \/ PadSequences
    \/ BuildModel
    \/ NewCallback
    \/ FitBegin
    \/ TrainEpoch
    \/ ValidateEpoch
    \/ FitEnd
    \/ Evaluate
    \/ PrintResults
    \/ BuildModel2
    \/ ShowSummary

Spec == Init /\ [][Next]_vars

\* The data steps alone, on any dataset file within the bounds.
NextData ==
    \/ LoadData
    \/ PadSequences

SpecData == InitData /\ [][NextData]_vars

\* ------------------------------------------------------------------ claims

Finished == pc = Len(Program) + 1

RECURSIVE MinOf(_)
MinOf(losses) ==
    IF Len(losses) = 1 THEN losses[1]
    ELSE LET m == MinOf(Tail(losses)) IN IF losses[1] < m THEN losses[1] ELSE m

\* In the fit that `history` belongs to, the validation loss of epoch k (from 1)
\* is not below the lowest validation loss of that fit's earlier epochs.
NoImprovement(k) ==
    /\ k >= 2
    /\ k <= Len(history)
    /\ history[k] >= MinOf(SubSeq(history, 1, k - 1))

\* C1: when the validation loss has failed to improve in the last two epochs
\* of a fit, one after the other, that epoch is the fit's last: stop_training
\* is set on the model and the loop does not go on to another epoch.
C1_EarlyStopping ==
    (/\ fit.model # ""
     /\ NoImprovement(Len(history))
     /\ NoImprovement(Len(history) - 1))
    => /\ fit.phase \in {"done", "idle"}
       /\ fit.epoch = Len(history)
       /\ models[fit.model].stop_training

\* A fit that two epochs without improvement have ended before epoch 10.
C1_Witness ==
    /\ fit.phase = "done"
    /\ fit.epoch < 10
    /\ NoImprovement(Len(history))
    /\ NoImprovement(Len(history) - 1)
    /\ models[fit.model].stop_training

IsPadded(a) == Len(arrays[a].shape) = 2 /\ arrays[a].shape[2] = MAXLEN

IsCompiled(m) == models[m].layers # <<>> /\ models[m].optimizer # ""

FitOver(m) == calls[m].fit = 1 /\ ~(fit.model = m /\ fit.phase # "idle")

ModelOrder == <<"rnn_model", "lstm_model", "gru_model", "lstm_model_with_attention">>

\* C2: the run is one sequence.  A model is fitted only once the data is
\* loaded and padded and the model is built and compiled, evaluated only after
\* its own fit has returned, and its result printed only after its evaluation;
\* the models are taken in the order SimpleRNN, LSTM, GRU, LSTM+Attention; no
\* model is fitted, evaluated or printed twice, and at the end of the run each
\* has been fitted once, evaluated once and printed once.
C2_SequentialPipeline ==
    /\ \A m \in ModelNames :
          /\ calls[m].fit <= 1 /\ calls[m].evaluate <= 1 /\ calls[m].print <= 1
          /\ calls[m].fit > 0 =>
                IsPadded("input_train") /\ IsPadded("input_test") /\ IsCompiled(m)
          /\ calls[m].evaluate > 0 => FitOver(m)
          /\ calls[m].print > 0 => calls[m].evaluate = 1
          /\ Finished =>
                calls[m].fit = 1 /\ calls[m].evaluate = 1 /\ calls[m].print = 1
    /\ \A i \in 2..Len(ModelOrder) :
          calls[ModelOrder[i]].fit > 0 => calls[ModelOrder[i - 1]].print = 1
    /\ IsPadded("input_train") => arrays["input_train"].shape[1] = NUM_TRAIN
    /\ (\E m \in ModelNames : IsCompiled(m)) => IsPadded("input_test")

\* The run has ended with every model fitted, evaluated and printed.
C2_Witness ==
    /\ Finished
    /\ \A m \in ModelNames :
          calls[m].fit = 1 /\ calls[m].evaluate = 1 /\ calls[m].print = 1

\* The rows of the dataset file that array a was made from.
FileRows(a) == IF a = "input_train" THEN imdb.x_train.rows ELSE imdb.x_test.rows

PaddedTo(a, n) ==
    /\ arrays[a].shape = <<n, MAXLEN>>
    /\ Len(arrays[a].rows) = Len(FileRows(a))
    /\ \A i \in 1..Len(arrays[a].rows) : Len(arrays[a].rows[i]) = MAXLEN

\* C3: once an array has gone through pad_sequences, each of its rows is
\* exactly MAXLEN = 500 long and it has as many rows as before (25,000 for
\* either set), whatever the length of the review: 0, short, or over 500.
C3_PaddedShape ==
    /\ pc > 2 => PaddedTo("input_train", NUM_TRAIN)
    /\ pc > 3 => PaddedTo("input_test", NUM_TEST)
    /\ Len(pad_sequences_row(<<>>, MAXLEN)) = MAXLEN
    /\ MAXLEN = 500 /\ NUM_TRAIN = 25000 /\ NUM_TEST = 25000

\* Both arrays padded, from an empty review and from one of over 500 words.
C3_Witness ==
    /\ pc > 3
    /\ Len(imdb.x_train.rows[1]) = 0
    /\ Len(imdb.x_test.rows[1]) > MAXLEN
    /\ PaddedTo("input_train", NUM_TRAIN)
    /\ PaddedTo("input_test", NUM_TEST)

\* C4, as claimed: a fit that has ended has run 10 epochs.
C4_AlwaysTenEpochs == fit.phase = "done" => fit.epoch = 10

\* C4, amended: a fit runs at most 10 epochs, and it ends after fewer than 10
\* only with stop_training set by the early-stopping callback.
C4_AtMostTenEpochs ==
    /\ fit.epoch <= 10
    /\ fit.model # "" => fit.epochs = 10
    /\ fit.phase = "done" => fit.epoch = 10 \/ models[fit.model].stop_training
    /\ fit.phase \in {"train", "validate"} => fit.epoch < 10

\* A fit that ran all 10 epochs without the callback stopping it.
C4_Witness ==
    /\ fit.phase = "done"
    /\ fit.epoch = 10
    /\ ~models[fit.model].stop_training

FitStatements == {i \in 1..Len(Program) : Program[i].op = "fit"}

\* C5: the four fits have one configuration.  Every compiled model has the
\* Adam optimizer, the binary cross-entropy loss and the accuracy metric; every
\* fit call is given input_train and y_train (padded, all 25,000 rows),
\* epochs=10, batch_size=64, validation_split=0.2 and the one callback, which
\* monitors val_loss with patience 2; two fit statements differ in the model
\* they are called on and in nothing else.
C5_SameConfiguration ==
    /\ \A m \in ModelNames :
          IsCompiled(m) =>
             /\ models[m].optimizer = "adam"
             /\ models[m].loss = "binary_crossentropy"
             /\ models[m].metrics = <<"accuracy">>
    /\ fit.model # "" =>
          /\ fit.x = "input_train" /\ fit.y = "y_train"
          /\ arrays[fit.x].shape = <<NUM_TRAIN, MAXLEN>>
          /\ arrays[fit.y].shape = <<NUM_TRAIN>>
          /\ fit.epochs = 10 /\ fit.batch_size = 64 /\ fit.validation_split = 20
          /\ fit.callbacks = <<"callback">>
          /\ callback.monitor = "val_loss" /\ callback.patience = 2
          /\ IsCompiled(fit.model)
    /\ \A i \in FitStatements : \A j \in FitStatements :
          [Program[i] EXCEPT !.arg = ""] = [Program[j] EXCEPT !.arg = ""]

\* The fourth fit is running, the other three models having been fitted.
C5_Witness ==
    /\ fit.model = "lstm_model_with_attention"
    /\ fit.phase = "validate"
    /\ \A m \in ModelNames : calls[m].fit = 1 /\ IsCompiled(m)

\* C6: in every fit the 25,000 training rows are split into rows 1..20,000,
\* which the weight updates read, and rows 20,001..25,000 (20 percent, 5,000
\* rows), which the validation reads.  The two ranges are disjoint and cover
\* the array, and every epoch of every model reads the same two ranges.
C6_ValidationSplit ==
    fit.model # "" =>
       /\ fit.train_idx = [lo |-> 1, hi |-> 20000]
       /\ fit.val_idx = [lo |-> 20001, hi |-> 25000]
       /\ Size(fit.train_idx) = 20000 /\ Size(fit.val_idx) = 5000
       /\ Size(fit.val_idx) * 100 = 20 * arrays[fit.x].shape[1]
       /\ fit.train_idx.hi < fit.val_idx.lo
       /\ fit.train_idx.lo = 1
       /\ fit.val_idx.lo = fit.train_idx.hi + 1
       /\ fit.val_idx.hi = arrays[fit.x].shape[1]
       /\ arrays[fit.x].shape[1] = 25000
       /\ fit.phase = "validate" => fit.batches.n = Size(fit.train_idx)
       /\ \A r \in reads :
             r.by = "fit" =>
                /\ r.use \in {"train", "validation"}
                /\ r.use = "train" => r.idx = fit.train_idx
                /\ r.use = "validation" => r.idx = fit.val_idx

\* The last model is being fitted, and the first and the last model have both
\* trained on one range and validated on the other.
C6_Witness ==
    /\ fit.model = "lstm_model_with_attention"
    /\ \A m \in {"rnn_model", "lstm_model_with_attention"} :
          \A use \in {"train", "validation"} :
             \E r \in reads : r.by = "fit" /\ r.model = m /\ r.use = use

\* C7, as claimed: every weight update of an epoch is computed from a batch of
\* exactly 64 training rows.
C7_EveryBatchFull ==
    fit.phase = "validate" =>
       \A i \in 1..fit.batches.steps : Size(Batch(fit.batches, i)) = 64

\* C7, amended: with batch_size 64 an epoch makes 313 weight updates over the
\* 20,000 training rows, batch after batch without gap or overlap; no batch has
\* more than 64 rows, the first 312 have exactly 64 and the last has the
\* remaining 32.
C7_BatchesOfAtMost64 ==
    fit.phase = "validate" =>
       LET b == fit.batches IN
       /\ b.steps = 313
       /\ Batch(b, 1).lo = 1
       /\ Batch(b, b.steps).hi = Size(fit.train_idx)
       /\ \A i \in 1..b.steps :
             LET rows == Batch(b, i) IN
             /\ rows.lo = (i - 1) * 64 + 1
             /\ Size(rows) = IF i < b.steps THEN 64 ELSE 32

\* An epoch of the GRU model has made its weight updates.
C7_Witness ==
    /\ fit.phase = "validate"
    /\ fit.model = "gru_model"
    /\ fit.batches.steps = 313
    /\ fit.batch_size = 64

\* C8: a fit reads input_train and y_train only, for its weight updates and
\* for the validation that early stopping watches; evaluate reads input_test
\* and y_test only.  No row of the test set is read by any fit.
C8_TestSetUnseen ==
    \A r \in reads :
       /\ r.by = "fit" => r.array \in {"input_train", "y_train"}
       /\ r.by = "evaluate" => r.array \in {"input_test", "y_test"} /\ r.use = "test"
       /\ r.array \in {"input_test", "y_test"} => r.by = "evaluate"

\* Every model has been fitted, validated and evaluated.
C8_Witness ==
    /\ Finished
    /\ \A m \in ModelNames :
          /\ \E r \in reads : r.by = "fit" /\ r.model = m /\ r.use = "train"
          /\ \E r \in reads : r.by = "fit" /\ r.model = m /\ r.use = "validation"
          /\ \E r \in reads : r.by = "evaluate" /\ r.model = m /\ r.array = "input_test"

\* The size of the Embedding table of each model the notebook builds.
EmbeddingSizes ==
    {(IF Program[i].op = "build_model"
      THEN build_model(Program[i].rnn_cell)
      ELSE build_model2(Program[i].rnn_cell, Program[i].rnn_units)).layers[1].input_dim :
        i \in {k \in 1..Len(Program) : Program[k].op \in {"build_model", "build_model2"}}}

InputArrays == {"input_train", "input_test"}

\* C9: from load_data on, through padding, every entry of input_train and
\* input_test is an index in 0..VOCAB_SIZE-1 = 0..9999, the padding value 0
\* included, so it is a valid row of the Embedding table of each of the four
\* models (each table has VOCAB_SIZE rows).
C9_TokensInVocabulary ==
    /\ VOCAB_SIZE = 10000
    /\ Cardinality(EmbeddingSizes) >= 1
    /\ \A size \in EmbeddingSizes :
          /\ size = VOCAB_SIZE
          /\ pc > 1 =>
                \A a \in InputArrays : \A i \in 1..Len(arrays[a].rows) :
                   \A j \in 1..Len(arrays[a].rows[i]) :
                      arrays[a].rows[i][j] >= 0 /\ arrays[a].rows[i][j] < size

\* Padded arrays made from a review with a word beyond the vocabulary, which
\* load_data replaced, and with padding in front.
C9_Witness ==
    /\ pc > 3
    /\ \E j \in 1..Len(imdb.x_train.rows[1]) :
          imdb.x_train.rows[1][j] + INDEX_FROM >= VOCAB_SIZE
    /\ arrays["input_train"].rows[1][1] = 0
    /\ arrays["input_train"].rows[1][MAXLEN] = OOV_CHAR
    /\ arrays["input_test"].rows[1][MAXLEN] = VOCAB_SIZE - 1

Attn == models["lstm_model_with_attention"]

\* C10: the model build_model2 returns takes an input of length 500 through
\* Embedding (500, 32), LSTM (500, 32), Attention (500, 32), Flatten (16000 =
\* MAXLEN * rnn_units) and Dense (1), with 320,000 + 8,320 + 0 + 0 + 16,001 =
\* 344,321 parameters, all of them trainable; summary() shows the same.
C10_AttentionModelShape ==
    /\ IsCompiled("lstm_model_with_attention") =>
          /\ Attn.input_shape = <<500>>
          /\ [i \in 1..Len(Attn.layers) |-> Attn.layers[i].type]
                = <<"Embedding", "LSTM", "Attention", "Flatten", "Dense">>
          /\ [i \in 1..Len(Attn.layers) |-> Attn.layers[i].out_shape]
                = << <<500, 32>>, <<500, 32>>, <<500, 32>>, <<16000>>, <<1>> >>
          /\ [i \in 1..Len(Attn.layers) |-> Attn.layers[i].params]
                = <<320000, 8320, 0, 0, 16001>>
          /\ Attn.layers[4].out_shape = <<MAXLEN * RNN_UNITS>>
          /\ SumParams(Attn.layers) = 344321
    /\ summary # NoSummary =>
          /\ summary.shapes = << <<500, 32>>, <<500, 32>>, <<500, 32>>, <<16000>>, <<1>> >>
          /\ summary.params = <<320000, 8320, 0, 0, 16001>>
          /\ summary.total = 344321
          /\ summary.trainable = 344321
          /\ summary.non_trainable = 0

\* The model has been built and its summary displayed.
C10_Witness ==
    /\ IsCompiled("lstm_model_with_attention")
    /\ summary.total = 344321
    /\ Len(Attn.layers) = 5

Others == ModelNames \ {"lstm_model_with_attention"}

\* C11, as claimed: on the recorded test metrics the LSTM model with attention
\* is the best of the four on both, the lowest Test Loss and the highest Test
\* Accuracy.
C11_BestOnBothMetrics ==
    Finished =>
       \A m \in Others :
          /\ results["lstm_model_with_attention"].loss <= results[m].loss
          /\ results["lstm_model_with_attention"].accuracy >= results[m].accuracy

\* C11, amended: on the recorded test metrics the LSTM model with attention
\* has the highest Test Accuracy of the four; its Test Loss is below that of
\* the SimpleRNN model only, the GRU and the LSTM model having a lower one.
C11_BestAccuracyOnly ==
    Finished =>
       /\ \A m \in Others :
             results["lstm_model_with_attention"].accuracy > results[m].accuracy
       /\ results["lstm_model_with_attention"].loss < results["rnn_model"].loss
       /\ results["gru_model"].loss < results["lstm_model"].loss
       /\ results["lstm_model"].loss < results["lstm_model_with_attention"].loss

\* The run has ended with the test metrics of all four models returned.
C11_Witness ==
    /\ Finished
    /\ \A m \in ModelNames : calls[m].print = 1 /\ results[m] # NoResults

\* C12: a fit that ends before epoch 10 has seen its validation loss fail, in
\* each of its last two epochs, to improve on the lowest validation loss of
\* its own earlier epochs; what the callback kept from an earlier model's fit
\* plays no part.
C12_OwnLossesDecide ==
    (fit.phase = "done" /\ fit.epoch < 10) =>
       /\ NoImprovement(Len(history))
       /\ NoImprovement(Len(history) - 1)

====
